---- MODULE Spec2Model ----
(***************************************************************************)
(* Verlet particle simulation of verlet/src/main.rs.                       *)
(*                                                                         *)
(* Numbers.  The program computes in f32.  The model computes in fixed     *)
(* point with round-to-nearest:                                            *)
(*   - lengths (positions, radii, distances) in 1/Scale of a pixel,        *)
(*   - dimensionless factors (unit normals, mass ratios, the response      *)
(*     coefficient) in 1/Ratio,                                            *)
(*   - time in milliseconds (1/MsPerSec of a second),                      *)
(*   - accelerations in 1/Scale pixel per second squared.                  *)
(* The one f32 value that is not a number and that the program can         *)
(* produce, NaN (0.0 / 0.0), is kept as a value of its own: it propagates  *)
(* through every arithmetic operation and every comparison with it is      *)
(* false, as in IEEE 754.                                                  *)
(***************************************************************************)
EXTENDS Integers, Sequences, FiniteSets, TLC

VARIABLES
    particles,      \* Model.particles: Vec<Particle>
    gravity,        \* Model.gravity
    center,         \* Model.center
    last_push,      \* Model.last_push (milliseconds of the wall clock)
    mouse_pressed,  \* Model.mouse_pressed
    now,            \* the wall clock read by SystemTime::now()
    pc,             \* position of the update callback: idle between callbacks
    i,              \* solve_collisions: outer loop index (1-based)
    k,              \* solve_collisions: inner loop index (1-based)
    o_1,            \* solve_collisions: the clone of particles[i] taken by the outer loop
    phases,         \* the phases the running (or last) update call has completed
    event,          \* the event most recently delivered to events(), "none" once a tick starts
    ticks,          \* number of update calls so far
    nevents         \* number of events delivered so far

vars == <<particles, gravity, center, last_push, mouse_pressed, now,
          pc, i, k, o_1, phases, event, ticks, nevents>>

----------------------------------------------------------------------------
(* Bounds of the exploration *)

MaxTicks == 4
MaxEvents == 3
CapTicks == 22
CapEvents == 2
BallisticTicks == 3

(* Fixed-point resolution *)
Scale == 10
Ratio == 1000
MsPerSec == 1000

(* Program constants *)
MaxParticles == 20
SpawnPeriod == 500
DefaultRadius == 20 * Scale
ConstraintRadius == 300 * Scale
Padding == 2 * Scale
ResponseCoef == (8 * Ratio) \div 10
Half == (5 * Ratio) \div 10
SpawnOffsetX == 100 * Scale
SpawnOffsetY == 200 * Scale
GravityY == (0 - 1000) * Scale

----------------------------------------------------------------------------
(* f32 *)

NaN == 0 - 1000000000

IsNum(a) == a # NaN

Abs(a) == IF a < 0 THEN 0 - a ELSE a

\* a / b for b > 0, rounded to nearest, ties away from zero
RDiv(a, b) ==
    IF a >= 0 THEN (2 * a + b) \div (2 * b)
    ELSE 0 - ((2 * (0 - a) + b) \div (2 * b))

FAdd(a, b) == IF a = NaN \/ b = NaN THEN NaN ELSE a + b
FSub(a, b) == IF a = NaN \/ b = NaN THEN NaN ELSE a - b
FNeg(a) == IF a = NaN THEN NaN ELSE 0 - a
\* product of two values whose scales multiply to unit * den; the result is in unit
FMul(a, b, den) == IF a = NaN \/ b = NaN THEN NaN ELSE RDiv(a * b, den)
\* quotient a / b carried to the scale num; 0.0 / 0.0 is NaN.  A nonzero
\* dividend over zero (an infinity) does not arise: every divisor of the program
\* is the length of the dividend vector.
FDiv(a, b, num) ==
    IF a = NaN \/ b = NaN \/ b = 0 THEN NaN
    ELSE IF b > 0 THEN RDiv(a * num, b) ELSE 0 - RDiv(a * num, 0 - b)
FLt(a, b) == a # NaN /\ b # NaN /\ a < b
FGt(a, b) == a # NaN /\ b # NaN /\ a > b
FLe(a, b) == a # NaN /\ b # NaN /\ a <= b

RECURSIVE SqrtFloor(_, _, _)
\* largest r in lo..hi with r * r <= n (lo * lo <= n < (hi + 1) * (hi + 1))
SqrtFloor(n, lo, hi) ==
    IF lo >= hi THEN lo
    ELSE LET mid == (lo + hi + 1) \div 2
         IN  IF mid * mid <= n THEN SqrtFloor(n, mid, hi) ELSE SqrtFloor(n, lo, mid - 1)

SqrtBound == 46340

\* f32::sqrt, rounded to nearest
FSqrt(n) ==
    IF n = NaN \/ n < 0 THEN NaN
    ELSE LET r == SqrtFloor(n, 0, SqrtBound)
         IN  IF n - r * r > r THEN r + 1 ELSE r

----------------------------------------------------------------------------
(* utils::vec::Vec2 *)

Vec2_new(x, y) == [x |-> x, y |-> y]
Vec2_zero == Vec2_new(0, 0)

VAdd(a, b) == Vec2_new(FAdd(a.x, b.x), FAdd(a.y, b.y))
VSub(a, b) == Vec2_new(FSub(a.x, b.x), FSub(a.y, b.y))
\* Vec2 * f32, the factor in 1/den
VMul(a, s, den) == Vec2_new(FMul(a.x, s, den), FMul(a.y, s, den))
\* Vec2 / f32, the quotient in 1/num
VDiv(a, s, num) == Vec2_new(FDiv(a.x, s, num), FDiv(a.y, s, num))
\* x * x + y * y of a vector of lengths, in 1/Scale^2 (exact)
Len2(v) == IF v.x = NaN \/ v.y = NaN THEN NaN ELSE v.x * v.x + v.y * v.y
VLen(v) == FSqrt(Len2(v))
VIsNum(v) == IsNum(v.x) /\ IsNum(v.y)

----------------------------------------------------------------------------
(* Particle *)

Particle_new(pos) ==
    [pos |-> pos, pos_last |-> pos, acc |-> Vec2_zero, radius |-> DefaultRadius]

\* acc * dt * dt, dt in milliseconds
AccStep(acc, dt) == VMul(VMul(acc, dt, MsPerSec), dt, MsPerSec)

\* Particle::update without the reset of the accumulator
Particle_update_KeepAcc(p, dt) ==
    LET delta == VSub(p.pos, p.pos_last)
    IN  [p EXCEPT !.pos_last = p.pos,
                  !.pos = VAdd(p.pos, VAdd(delta, AccStep(p.acc, dt)))]

\* Particle::update that leaves pos_last as it was
Particle_update_StalePrev(p, dt) ==
    LET delta == VSub(p.pos, p.pos_last)
    IN  [p EXCEPT !.pos = VAdd(p.pos, VAdd(delta, AccStep(p.acc, dt))),
                  !.acc = Vec2_zero]

Particle_update(p, dt) ==
    LET delta == VSub(p.pos, p.pos_last)
    IN  [p EXCEPT !.pos_last = p.pos,
                  !.pos = VAdd(p.pos, VAdd(delta, AccStep(p.acc, dt))),
                  !.acc = Vec2_zero]

Particle_accelerate(p, acc) == [p EXCEPT !.acc = VAdd(p.acc, acc)]

\* (pos - pos_last) / dt, in 1/Scale pixel per second
Particle_velocity(p, dt) == VDiv(VSub(p.pos, p.pos_last), dt, MsPerSec)

----------------------------------------------------------------------------
(* Model *)

apply_gravity(ps, g) == [j \in 1..Len(ps) |-> Particle_accelerate(ps[j], g)]

Model_update(ps, dt) == [j \in 1..Len(ps) |-> Particle_update(ps[j], dt)]

\* apply_constraints that also moves pos_last onto the boundary
Constrain_ResetPrev(m, c) ==
    LET v == VSub(c, m.pos)
        dist == VLen(v)
    IN  IF FGt(dist, ConstraintRadius - m.radius)
        THEN LET n == VDiv(v, dist, Ratio)
                 q == VSub(c, VMul(n, ConstraintRadius - m.radius, Ratio))
             IN  [m EXCEPT !.pos = q, !.pos_last = q]
        ELSE m

\* body of the loop of apply_constraints for one particle
Constrain(m, c) ==
    LET v == VSub(c, m.pos)
        dist == VLen(v)
    IN  IF FGt(dist, ConstraintRadius - m.radius)
        THEN LET n == VDiv(v, dist, Ratio)
             IN  [m EXCEPT !.pos = VSub(c, VMul(n, ConstraintRadius - m.radius, Ratio))]
        ELSE m

apply_constraints(ps, c) == [j \in 1..Len(ps) |-> Constrain(ps[j], c)]

\* o_1.radius + o_2.radius + 2
MinDist(a, b) == a.radius + b.radius + Padding

\* the test of line 96 on the clone o1 and the particle o2
Overlap(o1, o2) ==
    FLt(Len2(VSub(o1.pos, o2.pos)), MinDist(o1, o2) * MinDist(o1, o2))

\* solve_collisions whose second correction lands on the clone o_2, not on
\* the stored particle
CollidePair_OneSided(ps, ii, kk, o1) ==
    LET o2 == ps[kk]
        v == VSub(o1.pos, o2.pos)
        dist2 == Len2(v)
        min_dist == MinDist(o1, o2)
    IN  IF FLt(dist2, min_dist * min_dist)
        THEN LET dist == FSqrt(dist2)
                 n == VDiv(v, dist, Ratio)
                 mass_ratio_2 == FDiv(o2.radius, o1.radius + o2.radius, Ratio)
                 delta == FMul(FMul(Half, ResponseCoef, Ratio), FSub(dist, min_dist), Ratio)
             IN  [ps EXCEPT
                    ![ii].pos = VSub(ps[ii].pos, VMul(n, FMul(mass_ratio_2, delta, Ratio), Ratio))]
        ELSE ps

\* body of the inner loop of solve_collisions for the pair (ii, kk); o1 is the
\* clone of particle ii the outer loop took, particle kk is read afresh
CollidePair(ps, ii, kk, o1) ==
    LET o2 == ps[kk]
        v == VSub(o1.pos, o2.pos)
        dist2 == Len2(v)
        min_dist == MinDist(o1, o2)
    IN  IF FLt(dist2, min_dist * min_dist)
        THEN LET dist == FSqrt(dist2)
                 n == VDiv(v, dist, Ratio)
                 mass_ratio_1 == FDiv(o1.radius, o1.radius + o2.radius, Ratio)
                 mass_ratio_2 == FDiv(o2.radius, o1.radius + o2.radius, Ratio)
                 delta == FMul(FMul(Half, ResponseCoef, Ratio), FSub(dist, min_dist), Ratio)
             IN  [ps EXCEPT
                    ![ii].pos = VSub(ps[ii].pos, VMul(n, FMul(mass_ratio_2, delta, Ratio), Ratio)),
                    ![kk].pos = VAdd(ps[kk].pos, VMul(n, FMul(mass_ratio_1, delta, Ratio), Ratio))]
        ELSE ps

\* the cap tested with <= in place of <
SpawnAllowed_OffByOne(elapsed, n) == elapsed > SpawnPeriod /\ n <= MaxParticles

\* the condition of line 157
SpawnAllowed(elapsed, n) == elapsed > SpawnPeriod /\ n < MaxParticles

\* the position update() spawns at
SpawnPos(c) == Vec2_new(FAdd(c.x, SpawnOffsetX), FAdd(c.y, SpawnOffsetY))

\* update() that enforces the boundary before it solves the collisions
UpdateCalls_ConstraintsFirst ==
    <<"apply_gravity", "apply_constraints", "solve_collisions", "update">>

\* the calls of update(), lines 167-170, in the order they are made
UpdateCalls == <<"apply_gravity", "solve_collisions", "apply_constraints", "update">>

\* where update() is once `done` calls have returned
AfterCalls(done) ==
    IF Len(done) < Len(UpdateCalls) THEN UpdateCalls[Len(done) + 1] ELSE "idle"

----------------------------------------------------------------------------
(* Inputs *)

\* advances of the wall clock between two update calls, milliseconds
ClockSteps == {16, 501}
\* upd.since_last, milliseconds
DtSet == {0, 16}
\* pointer positions, pixels
PointSet == {Vec2_new(300 * Scale, 0), Vec2_new((0 - 100) * Scale, (0 - 200) * Scale)}

NoEvent == [kind |-> "none", button |-> "none", p |-> Vec2_zero]
EventSet ==
    {[kind |-> "MouseMoved", button |-> "none", p |-> q] : q \in PointSet}
    \cup {[kind |-> kd, button |-> b, p |-> Vec2_zero] :
            kd \in {"MousePressed", "MouseReleased"}, b \in {"Left", "Right"}}
    \cup {[kind |-> "KeyPressed", button |-> "none", p |-> Vec2_zero]}

NoParticle == Particle_new(Vec2_zero)

----------------------------------------------------------------------------
(* events(), lines 130-151: the state the match leaves *)

\* the MouseMoved arm without its guard
events_center_Ungated(e, c, pressed) ==
    IF e.kind = "MouseMoved" THEN e.p ELSE c

events_center(e, c, pressed) ==
    IF e.kind = "MouseMoved" /\ pressed THEN e.p ELSE c

events_pressed(e, pressed) ==
    IF e.kind = "MouseMoved" /\ pressed THEN pressed
    ELSE IF e.kind = "MousePressed" /\ e.button = "Left" THEN TRUE
    ELSE IF e.kind = "MouseReleased" /\ e.button = "Left" THEN FALSE
    ELSE pressed

----------------------------------------------------------------------------
(* State machine *)

Init ==
    /\ particles = <<>>
    /\ gravity = Vec2_new(0, GravityY)
    /\ center = Vec2_new(0, 0)
    /\ last_push = 0
    /\ mouse_pressed = FALSE
    /\ now = 0
    /\ pc = "idle"
    /\ i = 1
    /\ k = 1
    /\ o_1 = NoParticle
    /\ phases = <<>>
    /\ event = NoEvent
    /\ ticks = 0
    /\ nevents = 0

\* a call that returns: it is logged and update() moves on to its next call
Return(call) ==
    /\ phases' = Append(phases, call)
    /\ pc' = AfterCalls(Append(phases, call))

\* events(): one event is delivered between two update calls
Events(budget) ==
    /\ pc = "idle"
    /\ nevents < budget
    /\ \E e \in EventSet :
        /\ center' = events_center(e, center, mouse_pressed)
        /\ mouse_pressed' = events_pressed(e, mouse_pressed)
        /\ event' = e
    /\ nevents' = nevents + 1
    /\ UNCHANGED <<particles, gravity, last_push, now, pc, i, k, o_1, phases, ticks>>

\* update(), lines 153-165: read the clock, spawn, then start the four calls
Update(budget, steps) ==
    /\ pc = "idle"
    /\ ticks < budget
    /\ \E step \in steps :
        /\ now' = now + step
        /\ IF SpawnAllowed(now' - last_push, Len(particles))
           THEN /\ particles' = Append(particles, Particle_new(SpawnPos(center)))
                /\ last_push' = now'
           ELSE UNCHANGED <<particles, last_push>>
    /\ phases' = <<>>
    /\ pc' = AfterCalls(<<>>)
    /\ event' = NoEvent
    /\ ticks' = ticks + 1
    /\ UNCHANGED <<gravity, center, mouse_pressed, i, k, o_1, nevents>>

\* model.apply_gravity()
ApplyGravity ==
    /\ pc = "apply_gravity"
    /\ particles' = apply_gravity(particles, gravity)
    /\ Return("apply_gravity")
    /\ UNCHANGED <<gravity, center, last_push, mouse_pressed, now, i, k, o_1,
                   event, ticks, nevents>>

\* model.solve_collisions(): head of the outer loop, `for i in 0..len`
SolveOuter ==
    /\ pc = "solve_collisions"
    /\ IF i <= Len(particles)
       THEN /\ o_1' = particles[i]
            /\ k' = i + 1
            /\ pc' = "solve_collisions_inner"
            /\ UNCHANGED <<i, phases>>
       ELSE /\ i' = 1
            /\ Return("solve_collisions")
            /\ UNCHANGED <<k, o_1>>
    /\ UNCHANGED <<particles, gravity, center, last_push, mouse_pressed, now,
                   event, ticks, nevents>>

\* model.solve_collisions(): head and body of the inner loop, `for k in (i + 1)..len`
SolveInner ==
    /\ pc = "solve_collisions_inner"
    /\ IF k <= Len(particles)
       THEN /\ particles' = CollidePair(particles, i, k, o_1)
            /\ k' = k + 1
            /\ UNCHANGED <<i, o_1, pc>>
       ELSE /\ i' = i + 1
            /\ k' = 1
            /\ o_1' = NoParticle
            /\ pc' = "solve_collisions"
            /\ UNCHANGED particles
    /\ UNCHANGED <<gravity, center, last_push, mouse_pressed, now, phases,
                   event, ticks, nevents>>

\* model.apply_constraints()
ApplyConstraints ==
    /\ pc = "apply_constraints"
    /\ particles' = apply_constraints(particles, center)
    /\ Return("apply_constraints")
    /\ UNCHANGED <<gravity, center, last_push, mouse_pressed, now, i, k, o_1,
                   event, ticks, nevents>>

\* model.update(dt); dt = upd.since_last is an argument of the callback and is
\* read by this call alone
ModelUpdate(dts) ==
    /\ pc = "update"
    /\ \E dt \in dts : particles' = Model_update(particles, dt)
    /\ Return("update")
    /\ UNCHANGED <<gravity, center, last_push, mouse_pressed, now, i, k, o_1,
                   event, ticks, nevents>>

Next ==
    \/ Events(MaxEvents)
    \/ Update(MaxTicks, ClockSteps)
    \/ ApplyGravity
    \/ SolveOuter
    \/ SolveInner
    \/ ApplyConstraints
    \/ ModelUpdate(DtSet)

Spec == Init /\ [][Next]_vars

----------------------------------------------------------------------------
(* The run to the particle cap: the spawn timer has expired at every update
   call and the frame time is one frame at 60 fps. *)

CapClockSteps == {501}
CapDtSet == {16}

NextCap ==
    \/ Events(CapEvents)
    \/ Update(CapTicks, CapClockSteps)
    \/ ApplyGravity
    \/ SolveOuter
    \/ SolveInner
    \/ ApplyConstraints
    \/ ModelUpdate(CapDtSet)

SpecCap == Init /\ [][NextCap]_vars

----------------------------------------------------------------------------
(* Particle::update and the tick around it on given particles with
   gravity = (0, 0): one particle with a position and a per-tick displacement
   drawn from small sets, alone or with a second particle at rest. *)

BallisticPos == {Vec2_new(0, 0), Vec2_new(100 * Scale, 200 * Scale), Vec2_new(250 * Scale, 0)}
BallisticDisp == {Vec2_new(0, 0), Vec2_new(3 * Scale, 0), Vec2_new(0, (0 - 5) * Scale),
                  Vec2_new(20 * Scale, 10 * Scale)}
BallisticOther == {<<>>, <<Particle_new(Vec2_new(30 * Scale, 0))>>}
BallisticClockSteps == {16}

InitBallistic ==
    /\ \E q \in BallisticPos, d \in BallisticDisp, rest \in BallisticOther :
         particles = <<[Particle_new(q) EXCEPT !.pos_last = VSub(q, d)]>> \o rest
    /\ gravity = Vec2_zero
    /\ center = Vec2_new(0, 0)
    /\ last_push = 0
    /\ mouse_pressed = FALSE
    /\ now = 0
    /\ pc = "idle"
    /\ i = 1
    /\ k = 1
    /\ o_1 = NoParticle
    /\ phases = <<>>
    /\ event = NoEvent
    /\ ticks = 0
    /\ nevents = 0

NextBallistic ==
    \/ Update(BallisticTicks, BallisticClockSteps)
    \/ ApplyGravity
    \/ SolveOuter
    \/ SolveInner
    \/ ApplyConstraints
    \/ ModelUpdate(DtSet)

SpecBallistic == InitBallistic /\ [][NextBallistic]_vars

----------------------------------------------------------------------------
(* Vocabulary of the properties *)

Indices == 1..Len(particles)

\* the four calls of a tick, as the specification orders them
TickPhases == <<"apply_gravity", "solve_collisions", "apply_constraints", "update">>

\* half a pixel: the rounding of a unit normal (1/Ratio) carried over the
\* boundary radius, plus the rounding of a length
Tolerance == Scale \div 2

Disp(p) == VSub(p.pos, p.pos_last)
Dot(a, b) == a.x * b.x + a.y * b.y
Cross(a, b) == a.x * b.y - a.y * b.x

\* the distance from the boundary center to a particle
CenterDist(p) == VLen(VSub(center, p.pos))

\* the step is the start of an update call
TickStarts == pc = "idle" /\ pc' # "idle"

\* the step is one visit of a pair by solve_collisions
PairVisit == pc = "solve_collisions_inner" /\ k <= Len(particles)

----------------------------------------------------------------------------
(* C1.  Spawn cap: the number of particles never exceeds max_particles (20),
   and an update call that starts with 20 particles leaves the particle
   collection as it is, whatever the spawn timer says. *)
C1_SpawnCap ==
    [][/\ Len(particles) <= 20
       /\ Len(particles') <= 20
       /\ (TickStarts /\ Len(particles) = 20) => particles' = particles]_vars

\* an update call has started with the timer expired and 20 particles, and
\* has spawned nothing
C1_Witness ==
    /\ pc = "apply_gravity"
    /\ Len(particles) = 20
    /\ now - last_push > 500
    /\ last_push > 0

----------------------------------------------------------------------------
(* C2.  Tick phase order: every update call runs apply_gravity,
   solve_collisions, apply_constraints and the integration, each once and in
   that order, and a new update call starts only when the previous one has
   completed all four. *)
PhasesInOrder ==
    /\ Len(phases) <= 4
    /\ phases = SubSeq(TickPhases, 1, Len(phases))
    /\ pc = "idle" => phases = (IF ticks = 0 THEN <<>> ELSE TickPhases)
    /\ pc = "apply_gravity" => phases = <<>>
    /\ pc \in {"solve_collisions", "solve_collisions_inner"} => phases = SubSeq(TickPhases, 1, 1)
    /\ pc = "apply_constraints" => phases = SubSeq(TickPhases, 1, 2)
    /\ pc = "update" => phases = SubSeq(TickPhases, 1, 3)
    /\ pc \in {"idle", "apply_gravity", "solve_collisions", "solve_collisions_inner",
               "apply_constraints", "update"}

C2_PhaseOrder ==
    [][/\ PhasesInOrder
       /\ PhasesInOrder'
       /\ ticks' # ticks => (pc = "idle" /\ (ticks = 0 \/ phases = TickPhases))
       /\ Len(phases') > Len(phases) => phases' = Append(phases, TickPhases[Len(phases) + 1])]_vars

\* a second update call has completed on particles
C2_Witness ==
    /\ pc = "idle"
    /\ ticks >= 2
    /\ phases = TickPhases
    /\ Len(particles) >= 1

----------------------------------------------------------------------------
(* C3.  Accumulator reset: between update calls every particle's accumulator
   is (0, 0), a particle enters the tick that spawned it with accumulator
   (0, 0), and the accumulator the integration consumes is exactly the one
   gravity contribution of the same tick. *)
C3_AccumulatorReset ==
    /\ pc \in {"idle", "apply_gravity"} => \A j \in Indices : particles[j].acc = Vec2_zero
    /\ pc \in {"solve_collisions", "solve_collisions_inner", "apply_constraints", "update"} =>
         \A j \in Indices : particles[j].acc = gravity

\* after a later tick, with a particle of an earlier tick and a newer one
C3_Witness ==
    /\ pc = "idle"
    /\ ticks >= 3
    /\ Len(particles) >= 2
    /\ particles[1].pos # particles[1].pos_last

----------------------------------------------------------------------------
(* C4.  Boundary containment: immediately after apply_constraints every
   particle is within boundary_radius - radius (280 pixels) of the boundary
   center, up to the rounding tolerance. *)
C4_BoundaryContainment ==
    pc = "update" =>
        \A j \in Indices :
            FLe(CenterDist(particles[j]), ConstraintRadius - particles[j].radius + Tolerance)

(* Boundary containment of the particles whose position is a number, and the
   clamp of apply_constraints: a particle farther out than 280 pixels is put
   at 280 pixels from the center, on the ray through its old position. *)
C4_ContainmentOfNumbers ==
    [][/\ pc' = "update" =>
            \A j \in 1..Len(particles') :
                VIsNum(particles'[j].pos) =>
                    FLe(VLen(VSub(center', particles'[j].pos)),
                        ConstraintRadius - particles'[j].radius + Tolerance)
       /\ pc = "apply_constraints" =>
            \A j \in Indices :
                FGt(CenterDist(particles[j]), ConstraintRadius - particles[j].radius) =>
                    LET lim == ConstraintRadius - particles[j].radius
                        old == VSub(particles[j].pos, center)
                        new == VSub(particles'[j].pos, center)
                    IN  /\ Abs(VLen(new) - lim) <= Tolerance
                        /\ Dot(old, new) > 0
                        /\ Abs(Cross(old, new)) <= Tolerance * (Abs(old.x) + Abs(old.y))]_vars

\* a particle has just been clamped onto the boundary of a moved center
C4_ClampWitness ==
    /\ pc = "update"
    /\ center # Vec2_zero
    /\ \E j \in Indices :
         /\ VIsNum(particles[j].pos)
         /\ Abs(CenterDist(particles[j]) - (ConstraintRadius - particles[j].radius)) <= Tolerance

----------------------------------------------------------------------------
(* C5.  Degenerate collision geometry: when solve_collisions visits a pair
   whose centers coincide, both particles' positions are numbers after the
   visit. *)
C5_CoincidentGuarded ==
    [][(PairVisit /\ VIsNum(o_1.pos) /\ o_1.pos = particles[k].pos) =>
            (VIsNum(particles'[i].pos) /\ VIsNum(particles'[k].pos))]_vars

----------------------------------------------------------------------------
(* C6.  Collision symmetry: with two particles closer than min_dist and not
   coincident, the pass moves them by equal and opposite vectors along the
   line joining their centers (up to the rounding of one length unit), each
   away from the other; the sum of the two centers, hence their midpoint, is
   the same before and after. *)
C6_CollisionSymmetry ==
    [][(/\ PairVisit
        /\ Len(particles) = 2
        /\ Overlap(particles[1], particles[2])
        /\ particles[1].pos # particles[2].pos) =>
            LET v == VSub(particles[1].pos, particles[2].pos)
                d1 == VSub(particles'[1].pos, particles[1].pos)
                d2 == VSub(particles'[2].pos, particles[2].pos)
            IN  /\ VAdd(particles'[1].pos, particles'[2].pos)
                     = VAdd(particles[1].pos, particles[2].pos)
                /\ d2 = Vec2_new(FNeg(d1.x), FNeg(d1.y))
                /\ Dot(d1, v) >= 0
                /\ Abs(Cross(d1, v)) <= Abs(v.x) + Abs(v.y)
                /\ Len2(VSub(particles'[1].pos, particles'[2].pos)) >= Len2(v)
                /\ (MinDist(particles[1], particles[2]) - FSqrt(Len2(v)) >= Scale) => d1 # Vec2_zero]_vars

\* the pass over two overlapping particles has moved both
C6_Witness ==
    /\ pc = "solve_collisions_inner"
    /\ Len(particles) = 2
    /\ k = 3
    /\ VIsNum(particles[1].pos)
    /\ o_1.pos # particles[1].pos
    /\ particles[2].pos # SpawnPos(center)

----------------------------------------------------------------------------
(* C7.  Ballistic consistency, gravity = (0, 0): a step that is not a
   correction of the particle's position by a collision or by the boundary
   leaves position - previous_position, and the velocity derived from it, as
   they were; the integration sets previous_position to the old position and
   position to the old position plus the old displacement. *)
C7_Ballistic ==
    [][\A j \in Indices :
        LET p == particles[j]
            q == particles'[j]
            corrected == pc \in {"solve_collisions_inner", "apply_constraints"} /\ q.pos # p.pos
        IN  /\ p.acc = Vec2_zero
            /\ ~corrected =>
                 /\ Disp(q) = Disp(p)
                 /\ \A dt \in DtSet \ {0} : Particle_velocity(q, dt) = Particle_velocity(p, dt)
            /\ pc = "update" =>
                 /\ q.pos_last = p.pos
                 /\ q.pos = VAdd(p.pos, VSub(p.pos, p.pos_last))
                 /\ q.acc = Vec2_zero]_vars

\* a lone particle, started at (100, 200) with displacement (3, 0) per tick,
\* two ticks later
C7_Witness ==
    /\ pc = "idle"
    /\ ticks = 2
    /\ Len(particles) = 1
    /\ particles[1].pos = Vec2_new(106 * Scale, 200 * Scale)
    /\ particles[1].pos_last = Vec2_new(103 * Scale, 200 * Scale)

----------------------------------------------------------------------------
(* C8.  Pairs of one pass: each pair (i, k), i < k, is visited in increasing
   index order, and the displacement and the overlap test of the visit are
   computed from the positions both particles hold at the moment of the
   visit: the position the visit uses for particle i is particle i's current
   one, corrections by earlier pairs of the pass included. *)
C8_PairsUseCurrentPositions ==
    (PairVisit /\ \A j \in Indices : VIsNum(particles[j].pos)) =>
        /\ i < k
        /\ o_1.pos = particles[i].pos

\* the increasing order of the visits alone
C8_VisitOrder ==
    [][/\ PairVisit => (1 <= i /\ i < k)
       /\ (PairVisit /\ pc' = "solve_collisions_inner") => (i' = i /\ k' = k + 1)
       /\ (pc = "solve_collisions_inner" /\ ~PairVisit) => (i' = i + 1 /\ pc' = "solve_collisions")
       /\ (pc = "solve_collisions" /\ pc' = "solve_collisions_inner") => (i' = i /\ k' = i + 1)
       /\ (pc # "solve_collisions" /\ pc' = "solve_collisions") => (pc = "solve_collisions_inner" \/ i' = 1)]_vars

----------------------------------------------------------------------------
(* C9.  Position-only corrections: apply_gravity changes accumulators only;
   solve_collisions and apply_constraints change current positions only; none
   of them changes a previous position, a radius or the number of particles;
   apply_constraints leaves a particle within 280 pixels of the center as it
   is. *)
C9_PositionOnly ==
    [][/\ pc \in {"apply_gravity", "solve_collisions", "solve_collisions_inner",
                  "apply_constraints"} =>
            /\ Len(particles') = Len(particles)
            /\ \A j \in Indices :
                 /\ particles'[j].pos_last = particles[j].pos_last
                 /\ particles'[j].radius = particles[j].radius
       /\ pc = "apply_gravity" =>
            \A j \in Indices : particles'[j].pos = particles[j].pos
       /\ pc \in {"solve_collisions", "solve_collisions_inner", "apply_constraints"} =>
            \A j \in Indices : particles'[j].acc = particles[j].acc
       /\ pc = "apply_constraints" =>
            \A j \in Indices :
                FLe(CenterDist(particles[j]), ConstraintRadius - particles[j].radius) =>
                    particles'[j] = particles[j]
       /\ pc = "update" =>
            \A j \in Indices :
                \E dt \in DtSet :
                    particles'[j].pos =
                        VAdd(particles[j].pos,
                             VAdd(VSub(particles[j].pos, particles[j].pos_last),
                                  AccStep(particles[j].acc, dt)))]_vars

\* a particle that a collision and the boundary have both moved this tick, its
\* previous position still the one the last integration left
C9_Witness ==
    /\ pc = "update"
    /\ Len(particles) >= 2
    /\ \E j \in Indices :
         /\ VIsNum(particles[j].pos)
         /\ particles[j].pos_last # particles[j].pos
         /\ Abs(CenterDist(particles[j]) - (ConstraintRadius - particles[j].radius)) <= Tolerance
    /\ \E j \in Indices :
         /\ FLt(CenterDist(particles[j]), ConstraintRadius - particles[j].radius - Tolerance)

----------------------------------------------------------------------------
(* C10.  Pointer gating: the boundary center changes only when a MouseMoved
   event is delivered while the left button is held, and then to the pointer
   position; the held flag is set by MousePressed(Left), cleared by
   MouseReleased(Left) and changed by nothing else; no event changes the
   particles. *)
C10_PointerGating ==
    [][/\ center' # center =>
            /\ nevents' = nevents + 1
            /\ event'.kind = "MouseMoved"
            /\ mouse_pressed
            /\ center' = event'.p
       /\ nevents' # nevents =>
            /\ particles' = particles
            /\ (event'.kind = "MouseMoved" /\ ~mouse_pressed) => center' = center
            /\ (event'.kind = "MouseMoved" /\ mouse_pressed) => center' = event'.p
            /\ event'.kind # "MouseMoved" => center' = center
            /\ (event'.kind = "MousePressed" /\ event'.button = "Left") => mouse_pressed'
            /\ (event'.kind = "MouseReleased" /\ event'.button = "Left") => ~mouse_pressed'
            /\ ~(event'.kind \in {"MousePressed", "MouseReleased"} /\ event'.button = "Left")
                 => mouse_pressed' = mouse_pressed
       /\ nevents' = nevents => mouse_pressed' = mouse_pressed]_vars

\* the center has followed the pointer while the button was held, with
\* particles in the simulation, and the button has been released since
C10_Witness ==
    /\ center # Vec2_zero
    /\ ~mouse_pressed
    /\ event.kind = "MouseReleased"
    /\ Len(particles) >= 1

====
